---- MODULE Spec2Model ----
(***************************************************************************)
(* Model of the twm compositor (src/src/main.rs): the process start-up and *)
(* shut-down around the calloop event loop, the client-dispatch source,    *)
(* the 16 ms timer handler (input drain, render, frame, refresh, flush)    *)
(* and the window space / seat state the input handlers change.            *)
(*                                                                         *)
(* The serials SERIAL_COUNTER hands out are not state of the model: no     *)
(* code of the program reads one back, a request that carries a serial is  *)
(* drawn as carrying the current one or an older one.                      *)
(*                                                                         *)
(* Geometry is one-dimensional: every toplevel is mapped at the origin     *)
(* (map_element(window, (0, 0), false)), so a window whose committed       *)
(* buffer has extent s covers the points 0 .. s-1.                         *)
(***************************************************************************)
EXTENDS Integers, Sequences, FiniteSets

\* ---------------------------------------------------------------- bounds
MaxWindows == 2   \* toplevels ever created (ids are never reused)
MaxSize    == 1   \* largest buffer extent a client commits
MaxSubsurfaces == 1   \* windows 1 .. MaxSubsurfaces have a subsurface
MaxAmount  == 1   \* largest magnitude of a scroll amount

Windows  == 1..MaxWindows
NoWindow == 0
Points   == 0..MaxSize          \* the point MaxSize is outside every window

Parents  == 1..MaxSubsurfaces   \* the windows whose root has a subsurface
NoCache  == -1                  \* the subsurface holds no cached state

NoValue    == "unset"           \* WAYLAND_DISPLAY absent
PrevName   == "wayland-0"       \* a value inherited from the parent process
SocketName == "wayland-1"       \* ListeningSocketSource::new_auto's name

VARIABLES
    pc,              \* position of the main thread
    env,             \* value of WAYLAND_DISPLAY in the process environment
    current_display, \* main's local `current_display`
    exitCode,        \* -1 while running, else the process exit status
    stop,            \* LoopSignal::stop has been called
    timer,           \* "armed" | "dropped": the redraw timer source
    pending,         \* 1 while the backend holds another event for this tick, else 0
    elements,        \* Space::elements, back to front
    life,            \* per window: "none" | "alive" | "role_destroyed" | "destroyed"
    size,            \* per window: extent of the committed buffer
    subSize,         \* per window: extent of its subsurface's current buffer
    subCached,       \* per window: extent its subsurface has cached, or NoCache
    activated,       \* per window: Activated in the toplevel's pending state
    sent,            \* per window: state of the last configure sent
    kbdFocus,        \* keyboard focus (a window's toplevel surface) or NoWindow
    ptrLoc,          \* pointer.current_location()
    ptrFocus,        \* pointer focus or NoWindow
    grab,            \* pointer grab: [kind, focus]
    last             \* what the most recent handler did with its event

vars == << pc, env, current_display, exitCode, stop, timer, pending, elements,
           life, size, subSize, subCached, activated, sent, kbdFocus, ptrLoc,
           ptrFocus, grab, last >>

procVars  == << env, current_display, exitCode, stop, timer >>
spaceVars == << elements, life, size, subSize, subCached, activated, sent >>
seatVars  == << kbdFocus, ptrLoc, ptrFocus, grab >>

\* ------------------------------------------------------------- helpers
Range(s) == { s[i] : i \in 1..Len(s) }

\* The pointer grab: which grab handler is installed ("none" is the seat's
\* default handler) and the pointer focus at the moment it was installed.
NoGrab == [kind |-> "none", focus |-> NoWindow]

ClickGrab(f) == [kind |-> "click", focus |-> f]

\* PointerHandle::is_grabbed.
IsGrabbed(g) == g.kind # "none"

\* The record every handler leaves behind: the event it handled, its
\* argument, whether a pointer grab was active when it arrived, the grab
\* handler the seat passed the event to ("none": the event never reached the
\* seat's pointer; for a commit, the window hook it ran) and the surface
\* that handler sent it to.
Did(ev, arg, grabbed, via, to) ==
    [ev |-> ev, arg |-> arg, grabbed |-> grabbed, via |-> via, to |-> to]

Quiet(ev) == Did(ev, 0, FALSE, "none", NoWindow)

\* A window's surface tree contains point p: the window sits at the origin,
\* its committed buffer covers 0 .. size-1 and its subsurface, placed at
\* the origin too, the points its current buffer covers.
Contains(w, p) == p < size[w] \/ p < subSize[w]

\* Space::element_under: walk the elements from the last (topmost) to the
\* first and return the first one that contains the point.
RECURSIVE UnderFrom(_, _, _)
UnderFrom(els, i, p) ==
    IF i = 0 THEN NoWindow
    ELSE IF Contains(els[i], p) THEN els[i]
    ELSE UnderFrom(els, i - 1, p)

ElementUnderBottomUp(els, p) ==
    IF \E i \in 1..Len(els) : Contains(els[i], p)
    THEN els[CHOOSE i \in 1..Len(els) :
               /\ Contains(els[i], p)
               /\ \A j \in 1..(i - 1) : ~Contains(els[j], p)]
    ELSE NoWindow

ElementUnder(els, p) == UnderFrom(els, Len(els), p)

\* TwmState::surface_under: the surface of the element under the point.
SurfaceUnder(p) == ElementUnder(elements, p)

Without(els, w) == SelectSeq(els, LAMBDA x : x # w)

\* Space::raise_element(window, activate): move the window to the end of
\* the element list.
RaiseOrderKeep(els, w) == els

RaiseOrder(els, w) == Append(Without(els, w), w)

\* Space::raise_element(window, true) on the activation flags: the raised
\* window is activated, every other element is deactivated.
RaiseActivateOnly(act, els, w) == [act EXCEPT ![w] = TRUE]

RaiseActivate(act, els, w) ==
    [x \in Windows |-> IF x = w THEN TRUE
                       ELSE IF x \in Range(els) THEN FALSE ELSE act[x]]

\* The miss branch: set_activated(false) on every element.
DeactivateNone(act, els) == act

DeactivateAll(act, els) ==
    [x \in Windows |-> IF x \in Range(els) THEN FALSE ELSE act[x]]

\* ToplevelSurface::send_pending_configure on every element: a configure is
\* sent when none was sent yet or the pending state differs from the last
\* one sent; the state sent becomes the last one sent.
StateName(b) == IF b THEN "active" ELSE "inactive"

SendPendingConfigure(snt, act, els) ==
    [x \in Windows |-> IF x \in Range(els) THEN StateName(act[x]) ELSE snt[x]]

\* PointerInternal::with_grab: a grab whose start focus is a surface that is
\* no longer alive is discarded before the event is handled.
GrabStale(g) ==
    IsGrabbed(g) /\ g.focus # NoWindow /\ life[g.focus] = "destroyed"

GrabLive(g) == IsGrabbed(g) /\ ~GrabStale(g)

GrabAfterAccess(g) == IF GrabStale(g) THEN NoGrab ELSE g

\* The grab handler with_grab passes an event to.
Handler(g) == IF GrabLive(g) THEN g.kind ELSE "default"

\* ---------------------------------------------------------------- Init
\* The state at line 437 of main: the environment variable has been read,
\* the state, seat and event sources are built, the space is empty.
Init ==
    /\ pc = "listen"
    /\ env \in {NoValue, PrevName}
    /\ current_display = env
    /\ exitCode = -1
    /\ stop = FALSE
    /\ timer = "armed"
    /\ pending = 0
    /\ elements = << >>
    /\ life = [w \in Windows |-> "none"]
    /\ size = [w \in Windows |-> 0]
    /\ subSize = [w \in Windows |-> 0]
    /\ subCached = [w \in Windows |-> NoCache]
    /\ activated = [w \in Windows |-> FALSE]
    /\ sent = [w \in Windows |-> "unsent"]
    /\ kbdFocus = NoWindow
    /\ ptrLoc = 0
    /\ ptrFocus = NoWindow
    /\ grab = NoGrab
    /\ last = Quiet("start")


\* ------------------------------------------------- start-up and shut-down
\* The process is gone: its memory (space, seat, loop) no longer exists, the
\* environment block and the exit status are what is left to observe.
Gone ==
    /\ stop' = FALSE
    /\ timer' = "dropped"
    /\ pending' = 0
    /\ elements' = << >>
    /\ life' = [w \in Windows |-> "none"]
    /\ size' = [w \in Windows |-> 0]
    /\ subSize' = [w \in Windows |-> 0]
    /\ subCached' = [w \in Windows |-> NoCache]
    /\ activated' = [w \in Windows |-> FALSE]
    /\ sent' = [w \in Windows |-> "unsent"]
    /\ kbdFocus' = NoWindow
    /\ ptrLoc' = 0
    /\ ptrFocus' = NoWindow
    /\ grab' = NoGrab

\* Lines 437-440: open the listening socket and export its name.  A failure
\* makes main return the error (exit status 1) with the variable untouched.
Listen ==
    /\ pc = "listen"
    /\ \/ /\ env' = SocketName
          /\ pc' = "spawn"
          /\ exitCode' = exitCode
          /\ last' = Quiet("listen")
          /\ UNCHANGED << current_display, stop, timer, pending >>
          /\ UNCHANGED spaceVars
          /\ UNCHANGED seatVars
       \/ /\ pc' = "exited"
          /\ exitCode' = 1
          /\ env' = env
          /\ last' = Quiet("listen_failed")
          /\ UNCHANGED current_display
          /\ Gone

\* Lines 442-638: output, timer and socket sources, the two child processes.
\* A spawn failure makes main return the error.
Spawn ==
    /\ pc = "spawn"
    /\ \/ /\ pc' = "idle"
          /\ exitCode' = exitCode
          /\ last' = Quiet("spawn")
          /\ UNCHANGED << env, current_display, stop, timer, pending >>
          /\ UNCHANGED spaceVars
          /\ UNCHANGED seatVars
       \/ /\ pc' = "exited"
          /\ exitCode' = 1
          /\ last' = Quiet("spawn_failed")
          /\ UNCHANGED << env, current_display >>
          /\ Gone

\* Lines 644-647: the variable is written back only when it was readable at
\* start-up.
RestoredEnv(saved, now) == IF saved # NoValue THEN saved ELSE now

\* Lines 640-648: event_loop.run has returned; restore and return Ok(()).
Shutdown ==
    /\ pc = "stopped"
    /\ env' = RestoredEnv(current_display, env)
    /\ exitCode' = 0
    /\ pc' = "exited"
    /\ last' = Quiet("shutdown")
    /\ UNCHANGED current_display
    /\ Gone

\* A failed expect(): the process panics (exit status 101).
Panic(what) ==
    /\ pc' = "panicked"
    /\ exitCode' = 101
    /\ last' = Quiet(what)
    /\ UNCHANGED << env, current_display >>
    /\ Gone

\* ------------------------------------------------ client dispatch source
\* Lines 427-430: the source runs the handlers of the requests that
\* arrived; each action below is one request.

\* Space::map_element(window, (0, 0), false): the new element goes on top
\* and no activation flag changes.
MapElement(els, w) == Append(els, w)

NextWindow == Cardinality({w \in Windows : life[w] # "none"}) + 1

\* XdgShellHandler::new_toplevel.
NewToplevel ==
    /\ pc = "idle"
    /\ NextWindow \in Windows
    /\ elements' = MapElement(elements, NextWindow)
    /\ life' = [life EXCEPT ![NextWindow] = "alive"]
    /\ last' = Quiet("request")
    /\ UNCHANGED << pc, pending, size, subSize, subCached, activated, sent >>
    /\ UNCHANGED procVars
    /\ UNCHANGED seatVars

\* The state a commit of the parent makes current in the subsurface: the
\* cached one when there is one.
AppliedCache(cur, cached) == IF cached # NoCache THEN cached ELSE cur

\* CompositorHandler::commit on the root surface of window w with a buffer
\* of extent s: the commit makes the cached state of the subsurface current
\* with the root's, the buffer handler takes the new state of the surface
\* tree, and the window found in the space refreshes itself in on_commit.
Commit(w, s) ==
    /\ pc = "idle"
    /\ life[w] \in {"alive", "role_destroyed"}
    /\ w \in Range(elements)
    /\ size' = [size EXCEPT ![w] = s]
    /\ subSize' = [subSize EXCEPT ![w] = AppliedCache(@, subCached[w])]
    /\ subCached' = [subCached EXCEPT ![w] = NoCache]
    /\ last' = Quiet("request")
    /\ UNCHANGED << pc, pending, elements, life, activated, sent >>
    /\ UNCHANGED procVars
    /\ UNCHANGED seatVars

\* Line 182: on_commit_buffer_handler takes the committed state of a surface
\* unless the surface is a synchronized subsurface, whose commit is cached.
SubAppliesAlways(sync) == TRUE

SubApplies(sync) == ~sync

\* Line 183: the window's on_commit hook runs unless the surface is a
\* synchronized subsurface.
RunsOnCommit(sync) == ~sync

\* CompositorHandler::commit on the subsurface of window w with a buffer of
\* extent s; sync is the mode of the subsurface (is_sync_subsurface) when
\* the commit arrives.
SubsurfaceCommit(w, s, sync) ==
    /\ pc = "idle"
    /\ w \in Parents
    /\ life[w] \in {"alive", "role_destroyed"}
    /\ w \in Range(elements)
    /\ subSize' = [subSize EXCEPT ![w] = IF SubApplies(sync) THEN s ELSE @]
    /\ subCached' = [subCached EXCEPT ![w] = IF SubApplies(sync) THEN NoCache
                                             ELSE s]
    /\ last' = Did(IF sync THEN "sync_commit" ELSE "desync_commit", s, FALSE,
                   IF RunsOnCommit(sync) THEN "on_commit" ELSE "none", w)
    /\ UNCHANGED << pc, pending, elements, life, size, activated, sent >>
    /\ UNCHANGED procVars
    /\ UNCHANGED seatVars

\* XdgShellHandler::toplevel_destroyed: the role object is gone, the space
\* is not told.
ToplevelDestroyed(w) ==
    /\ pc = "idle"
    /\ life[w] = "alive"
    /\ life' = [life EXCEPT ![w] = "role_destroyed"]
    /\ last' = Quiet("request")
    /\ UNCHANGED << pc, pending, elements, size, subSize, subCached, activated,
                    sent >>
    /\ UNCHANGED procVars
    /\ UNCHANGED seatVars

\* CompositorHandler::destroyed: the wl_surface is gone, and its subsurface
\* with it; the destruction hook of the buffer handler resets the renderer
\* state of a destroyed surface, so the tree no longer has an extent.
SurfaceDestroyed(w) ==
    /\ pc = "idle"
    /\ life[w] = "role_destroyed"
    /\ life' = [life EXCEPT ![w] = "destroyed"]
    /\ size' = [size EXCEPT ![w] = 0]
    /\ subSize' = [subSize EXCEPT ![w] = 0]
    /\ subCached' = [subCached EXCEPT ![w] = NoCache]
    /\ last' = Quiet("request")
    /\ UNCHANGED << pc, pending, elements, activated, sent >>
    /\ UNCHANGED procVars
    /\ UNCHANGED seatVars

\* XdgShellHandler::grab: a popup of a live toplevel asks for a grab;
\* fresh = 1 when the request carries the serial of the most recent input
\* event, 0 when it carries an older one.
XdgGrab(fresh) ==
    /\ pc = "idle"
    /\ \E w \in Windows : life[w] = "alive"
    /\ last' = Did("grab", fresh, IsGrabbed(grab), "none", NoWindow)
    /\ UNCHANGED << pc, pending >>
    /\ UNCHANGED procVars
    /\ UNCHANGED spaceVars
    /\ UNCHANGED seatVars

\* XdgShellHandler::ack_configure for a configure sent to window w; fresh = 1
\* when the request names the latest configure sent to w, 0 when it names
\* an older one.  The handler keeps nothing: the configure bookkeeping of
\* the window is what it was.
AckConfigureStateReset(snt, w, fresh) ==
    [snt EXCEPT ![w] = IF fresh = 0 THEN "unsent" ELSE @]

AckConfigureState(snt, w, fresh) == snt

AckConfigure(w, fresh) ==
    /\ pc = "idle"
    /\ life[w] = "alive"
    /\ sent[w] # "unsent"
    /\ sent' = AckConfigureState(sent, w, fresh)
    /\ last' = Did("ack", fresh, FALSE, "none", w)
    /\ UNCHANGED << pc, pending, elements, life, size, subSize, subCached,
                    activated >>
    /\ UNCHANGED procVars
    /\ UNCHANGED seatVars

\* Line 428: dispatch_clients returned an error.
DispatchFail ==
    /\ pc = "idle"
    /\ Panic("dispatch_clients_failed")

ClientDispatch ==
    \/ NewToplevel
    \/ \E w \in Windows, s \in 0..MaxSize : Commit(w, s)
    \/ \E w \in Windows : ToplevelDestroyed(w)
    \/ \E w \in Windows : SurfaceDestroyed(w)
    \/ \E fresh \in {0, 1} : XdgGrab(fresh)
    \/ \E w \in Windows, fresh \in {0, 1} : AckConfigure(w, fresh)
    \/ DispatchFail


\* ------------------------------------------------- input events (timer)
\* Each action below is the callback of dispatch_new_events for one event.
CanTake == pc = "input" /\ pending > 0

\* Lines 473-488: a key event goes to the keyboard focus.
KeyboardKey ==
    /\ CanTake
    /\ pending' \in {0, 1}
    /\ last' = Did("key", 0, IsGrabbed(grab), "none", kbdFocus)
    /\ UNCHANGED << pc, kbdFocus, ptrLoc, ptrFocus, grab >>
    /\ UNCHANGED procVars
    /\ UNCHANGED spaceVars

\* The focus PointerHandle::motion leaves: the default handler takes the
\* surface under the pointer, the click grab keeps its start focus.
MotionFocus(g, under) == IF GrabLive(g) THEN g.focus ELSE under

\* Lines 489-502: absolute motion to position p.
PointerMotionAbsolute(p) ==
    /\ CanTake
    /\ pending' \in {0, 1}
    /\ ptrLoc' = p
    /\ ptrFocus' = MotionFocus(grab, SurfaceUnder(p))
    /\ grab' = GrabAfterAccess(grab)
    /\ last' = Did("motion", p, IsGrabbed(grab), Handler(grab), ptrFocus')
    /\ UNCHANGED << pc, kbdFocus >>
    /\ UNCHANGED procVars
    /\ UNCHANGED spaceVars

\* Line 510: the condition under which a button event is processed at all.
TakesButtonAlways(state, g) == TRUE

TakesButton(state, g) == state = "pressed" /\ ~IsGrabbed(g)

\* Lines 511-529: the focus and stacking bookkeeping of a press.
HitWindow == ElementUnder(elements, ptrLoc)

\* Lines 517 and 527: keyboard.set_focus.
FocusOnPress(hit) == hit

PressBookkeeping ==
    LET hit == HitWindow IN
    IF hit # NoWindow
    THEN /\ elements' = RaiseOrder(elements, hit)
         /\ activated' = RaiseActivate(activated, elements, hit)
         /\ kbdFocus' = FocusOnPress(hit)
         /\ sent' = SendPendingConfigure(sent, activated', elements')
    ELSE /\ elements' = elements
         /\ activated' = DeactivateAll(activated, elements)
         /\ kbdFocus' = FocusOnPress(NoWindow)
         /\ sent' = SendPendingConfigure(sent, activated', elements)

\* Lines 503-541: a button event.  pointer.button sits inside the branch
\* of line 510; there the seat's default handler forwards the event to the
\* pointer focus and, on a press, installs the click grab.
PointerButton(state) ==
    /\ CanTake
    /\ pending' \in {0, 1}
    /\ IF TakesButton(state, grab)
       THEN /\ PressBookkeeping
            /\ grab' = IF state = "pressed" /\ ~GrabLive(grab)
                       THEN ClickGrab(ptrFocus)
                       ELSE GrabAfterAccess(grab)
            /\ last' = Did(state, HitWindow, IsGrabbed(grab), Handler(grab),
                           ptrFocus)
       ELSE /\ UNCHANGED << elements, activated, kbdFocus, sent, grab >>
            /\ last' = Did(state, NoWindow, IsGrabbed(grab), "none", NoWindow)
    /\ UNCHANGED << pc, ptrLoc, ptrFocus, life, size, subSize, subCached >>
    /\ UNCHANGED procVars

\* An Option<f64>: the empty set is None, {x} is Some(x).  Amounts are
\* whole numbers, on which the f64 arithmetic of the handler is exact.
Amounts == (0 - MaxAmount)..MaxAmount

OptAmounts == {{}} \cup {{x} : x \in Amounts}

UnwrapOr(opt, default) == IF opt = {} THEN default ELSE CHOOSE x \in opt : TRUE

\* What the backend reports for one axis, and a scroll event: both axes.
AxisInputs == [amount : OptAmounts, discrete : OptAmounts]

NoAxis == [amount |-> {}, discrete |-> {}]

\* The scroll events drawn: every combination of amounts on one axis with
\* nothing on the other, and the line deltas of a wheel (discrete amounts
\* only) on both axes.
AxisEvents ==
    {e \in [h : AxisInputs, v : AxisInputs] :
        \/ e.h = NoAxis
        \/ e.v = NoAxis
        \/ /\ e.h.amount = {} /\ e.v.amount = {}
           /\ e.h.discrete # {} /\ e.v.discrete # {}}

\* The scroll event the runs of the whole loop draw: one wheel step down.
AxisSample ==
    {[h |-> [amount |-> {}, discrete |-> {}],
      v |-> [amount |-> {}, discrete |-> {1}]]}

\* Lines 546 and 548: the factor a discrete amount is scaled by.
ScrollFactor == 3

\* Lines 545-548: the continuous amount, else the discrete one scaled.
AxisAmountUnscaled(in) ==
    IF in.amount # {} THEN UnwrapOr(in.amount, 0)
    ELSE UnwrapOr(in.discrete, 0)

AxisAmount(in) ==
    IF in.amount # {} THEN UnwrapOr(in.amount, 0)
    ELSE UnwrapOr(in.discrete, 0) * ScrollFactor

\* `value as i32` on a whole number: saturation at the bounds of i32.
AsI32(x) ==
    IF x > 2147483647 THEN 2147483647
    ELSE IF x < -2147483647 - 1 THEN -2147483647 - 1
    ELSE x

\* Lines 552-565 for one axis: AxisFrame::new holds 0 for the value and the
\* discrete count; both are set only when the amount is not 0.
FrameAxis(in) ==
    LET amount == AxisAmount(in) IN
    [value    |-> IF amount # 0 THEN amount ELSE 0,
     discrete |-> IF amount # 0 /\ in.discrete # {}
                  THEN AsI32(UnwrapOr(in.discrete, 0)) ELSE 0]

AxisFrame(e) == [h |-> FrameAxis(e.h), v |-> FrameAxis(e.v)]

\* Lines 542-569: a scroll event; the frame goes to the pointer focus
\* through the installed grab handler.
PointerAxis(e) ==
    /\ CanTake
    /\ pending' \in {0, 1}
    /\ grab' = GrabAfterAccess(grab)
    /\ last' = Did("axis", [event |-> e, frame |-> AxisFrame(e)],
                   IsGrabbed(grab), Handler(grab), ptrFocus)
    /\ UNCHANGED << pc, kbdFocus, ptrLoc, ptrFocus >>
    /\ UNCHANGED procVars
    /\ UNCHANGED spaceVars

InputEvent ==
    \/ KeyboardKey
    \/ \E p \in Points : PointerMotionAbsolute(p)
    \/ \E state \in {"pressed", "released"} : PointerButton(state)
    \/ \E e \in AxisSample : PointerAxis(e)


\* --------------------------------------------------- timer handler steps
\* Line 469: the timer fires and dispatch_new_events starts; the backend
\* yields its events lazily, n says whether it holds one.
TimerFire(n) ==
    /\ pc = "idle"
    /\ timer = "armed"
    /\ pc' = "input"
    /\ pending' = n
    /\ last' = Quiet("timer")
    /\ UNCHANGED procVars
    /\ UNCHANGED spaceVars
    /\ UNCHANGED seatVars

\* dispatch_new_events returns once the callback has seen every event.
DrainedEarly(n) == TRUE

Drained(n) == n = 0

\* Line 577: the TimeoutAction returned on WindowClosed.
OnClosedRearm == "armed"

OnClosed == "dropped"

\* Lines 575-581: the result of dispatch_new_events.  WindowClosed raises
\* the stop signal and drops the timer; any other error fails the expect.
DispatchResult(res) ==
    /\ pc = "input"
    /\ Drained(pending)
    /\ \/ /\ res = "ok"
          /\ pc' = "render"
          /\ last' = Quiet("dispatched")
          /\ UNCHANGED << stop, timer, exitCode >>
          /\ UNCHANGED << env, current_display, pending >>
          /\ UNCHANGED spaceVars
          /\ UNCHANGED seatVars
       \/ /\ res = "closed"
          /\ stop' = TRUE
          /\ timer' = OnClosed
          /\ pc' = "stopped"
          /\ last' = Quiet("closed")
          /\ UNCHANGED exitCode
          /\ UNCHANGED << env, current_display, pending >>
          /\ UNCHANGED spaceVars
          /\ UNCHANGED seatVars
       \/ /\ res = "error"
          /\ Panic("dispatch_new_events_failed")

\* Lines 583-602: bind, render_output over the space, submit; each result
\* is unwrapped with expect.
Render(ok) ==
    /\ pc = "render"
    /\ IF ok
       THEN /\ pc' = "frame"
            /\ last' = Quiet("render")
            /\ UNCHANGED << pending >>
            /\ UNCHANGED procVars
            /\ UNCHANGED spaceVars
            /\ UNCHANGED seatVars
       ELSE Panic("render_failed")

\* Lines 605-614: send_frame to every element of the space; the record
\* holds the windows notified.
SendFrames ==
    /\ pc = "frame"
    /\ pc' = "refresh"
    /\ last' = Did("send_frame", Range(elements), FALSE, "none", NoWindow)
    /\ UNCHANGED << pending >>
    /\ UNCHANGED procVars
    /\ UNCHANGED spaceVars
    /\ UNCHANGED seatVars

\* Space::refresh: keep the elements whose toplevel is alive; a pruned
\* Window is dropped, and its state with it.
Alive(w) == life[w] = "alive"

RefreshElements(els) == SelectSeq(els, Alive)

Kept(f, els, init) ==
    [w \in Windows |->
        IF w \in Range(elements) /\ w \notin Range(els) THEN init ELSE f[w]]

\* Line 616.
Refresh ==
    /\ pc = "refresh"
    /\ pc' = "flush"
    /\ elements' = RefreshElements(elements)
    /\ size' = Kept(size, elements', 0)
    /\ subSize' = Kept(subSize, elements', 0)
    /\ subCached' = Kept(subCached, elements', NoCache)
    /\ activated' = Kept(activated, elements', FALSE)
    /\ sent' = Kept(sent, elements', "unsent")
    /\ last' = Quiet("refresh")
    /\ UNCHANGED << pending, life >>
    /\ UNCHANGED procVars
    /\ UNCHANGED seatVars

\* Line 617: flush_clients, unwrapped with expect.
Flush(ok) ==
    /\ pc = "flush"
    /\ IF ok
       THEN /\ pc' = "reschedule"
            /\ last' = Quiet("flush")
            /\ UNCHANGED << pending >>
            /\ UNCHANGED procVars
            /\ UNCHANGED spaceVars
            /\ UNCHANGED seatVars
       ELSE Panic("flush_failed")

\* Line 621: TimeoutAction::ToDuration(16 ms); control returns to the loop.
Reschedule ==
    /\ pc = "reschedule"
    /\ pc' = "idle"
    /\ timer' = "armed"
    /\ last' = Quiet("rescheduled")
    /\ UNCHANGED << env, current_display, exitCode, stop, pending >>
    /\ UNCHANGED spaceVars
    /\ UNCHANGED seatVars

TimerHandler ==
    \/ \E n \in {0, 1} : TimerFire(n)
    \/ InputEvent
    \/ \E res \in {"ok", "closed", "error"} : DispatchResult(res)
    \/ \E ok \in BOOLEAN : Render(ok)
    \/ SendFrames
    \/ Refresh
    \/ \E ok \in BOOLEAN : Flush(ok)
    \/ Reschedule

Next ==
    \/ Listen
    \/ Spawn
    \/ ClientDispatch
    \/ TimerHandler
    \/ Shutdown

Spec == Init /\ [][Next]_vars

\* The runs started from inside a Wayland session (the winit backend's
\* parent exported WAYLAND_DISPLAY); the space and seat never read it.
NestedInit == Init /\ env = PrevName

RunSpec == NestedInit /\ [][Next]_vars

\* The runs of clients whose windows carry subsurfaces, over ticks in which
\* the backend holds no input event.
SurfaceNext ==
    \/ Listen
    \/ Spawn
    \/ NewToplevel
    \/ \E w \in Windows, s \in 0..MaxSize : Commit(w, s)
    \/ \E w \in Parents, s \in 0..MaxSize, sync \in BOOLEAN :
          SubsurfaceCommit(w, s, sync)
    \/ \E w \in Windows : ToplevelDestroyed(w)
    \/ \E w \in Windows : SurfaceDestroyed(w)
    \/ DispatchFail
    \/ TimerFire(0)
    \/ \E res \in {"ok", "closed", "error"} : DispatchResult(res)
    \/ \E ok \in BOOLEAN : Render(ok)
    \/ SendFrames
    \/ Refresh
    \/ \E ok \in BOOLEAN : Flush(ok)
    \/ Reschedule
    \/ Shutdown

SurfaceSpec == NestedInit /\ [][SurfaceNext]_vars

\* The runs in which the backend delivers pointer motion and every scroll
\* event of AxisEvents, over windows that clients map and fill.
ScrollNext ==
    \/ Listen
    \/ Spawn
    \/ NewToplevel
    \/ \E w \in Windows, s \in 0..MaxSize : Commit(w, s)
    \/ \E n \in {0, 1} : TimerFire(n)
    \/ \E p \in Points : PointerMotionAbsolute(p)
    \/ \E e \in AxisEvents : PointerAxis(e)
    \/ \E res \in {"ok", "closed", "error"} : DispatchResult(res)
    \/ \E ok \in BOOLEAN : Render(ok)
    \/ SendFrames
    \/ Refresh
    \/ \E ok \in BOOLEAN : Flush(ok)
    \/ Reschedule
    \/ Shutdown

ScrollSpec == NestedInit /\ [][ScrollNext]_vars

\* ======================================================== properties
\* Declarative reading of "the topmost window whose region contains p".
IndexOf(els, w) == CHOOSE i \in 1..Len(els) : els[i] = w

TopmostAt(els, w, p) ==
    /\ w \in Range(els)
    /\ Contains(w, p)
    /\ \A j \in (IndexOf(els, w) + 1)..Len(els) : ~Contains(els[j], p)

NoneAt(els, p) == \A w \in Range(els) : ~Contains(w, p)

\* A step that handles a button press arriving while no grab is active.
UngrabbedPress == pc = "input" /\ last'.ev = "pressed" /\ ~IsGrabbed(grab)

\* C1: a button press with no grab active while the pointer is over window
\* W (the topmost window containing the pointer location, wherever W is in
\* the z-order) leaves W on top, W activated, every other window of the
\* space deactivated and the keyboard focus on W.
C1_PressRaisesActivatesFocuses ==
    [][\A W \in Windows :
          (UngrabbedPress /\ TopmostAt(elements, W, ptrLoc)) =>
              /\ elements' # << >>
              /\ elements'[Len(elements')] = W
              /\ activated'[W]
              /\ \A o \in Range(elements') \ {W} : ~activated'[o]
              /\ kbdFocus' = W]_vars

\* The press hit window 1, which was mapped first and so lay below window 2.
C1_Witness ==
    /\ last.ev = "pressed"
    /\ ~last.grabbed
    /\ last.arg = 1
    /\ elements = << 2, 1 >>
    /\ activated[1]
    /\ kbdFocus = 1

\* C2: a button press with no grab active at a location no window contains
\* clears the keyboard focus and leaves every window of the space
\* deactivated.
C2_MissClearsFocusAndActivation ==
    [][(UngrabbedPress /\ NoneAt(elements, ptrLoc)) =>
          /\ kbdFocus' = NoWindow
          /\ \A w \in Range(elements') : ~activated'[w]]_vars

\* A press over empty space with two windows mapped.
C2_Witness ==
    /\ last.ev = "pressed"
    /\ ~last.grabbed
    /\ last.arg = NoWindow
    /\ Len(elements) = 2
    /\ kbdFocus = NoWindow
    /\ \A w \in Range(elements) : ~activated[w] /\ sent[w] = "inactive"

\* C3: in every reachable state (after any maps, raises, destroys and
\* refreshes) the hit test at any point returns the topmost window of the
\* current z-order that contains the point, and none exactly when no window
\* contains it; the z-order lists no window twice.
C3_HitTestTopmost ==
    /\ \A i, j \in 1..Len(elements) : elements[i] = elements[j] => i = j
    /\ \A p \in Points :
          LET r == ElementUnder(elements, p) IN
          /\ (r = NoWindow) <=> NoneAt(elements, p)
          /\ r # NoWindow => TopmostAt(elements, r, p)

\* A motion was hit-tested at a point both windows contain, after the older
\* window had been raised above the newer one.
C3_Witness ==
    /\ last.ev = "motion"
    /\ elements = << 2, 1 >>
    /\ Contains(1, ptrLoc)
    /\ Contains(2, ptrLoc)
    /\ SurfaceUnder(ptrLoc) = 1

\* C4: every button event (press or release, grabbed or not) is passed to
\* the seat's pointer and reaches the pointer-focused surface.
C4_EveryButtonForwarded ==
    last.ev \in {"pressed", "released"} =>
        last.via # "none" /\ last.to = ptrFocus

\* C5: while the backend still holds an event of this tick the handler stays
\* in the input drain, and the render pass starts only from a drained
\* dispatch: no render between two input events of a tick, none before the
\* last of them.
C5_InputDrainedBeforeRender ==
    [][/\ (pc = "input" /\ pending > 0) => pc' = "input"
       /\ pc' = "render" => (pc = "input" /\ pending = 0 /\ pending' = 0)
       /\ last'.ev \in {"key", "motion", "pressed", "released", "axis"}
             => (pc = "input" /\ pc' = "input")]_vars

\* The backend has run dry after a press that followed an earlier press;
\* the dispatch result, and with it the render, comes next.
C5_Witness ==
    /\ pc = "input"
    /\ pending = 0
    /\ last.ev = "pressed"
    /\ last.grabbed

\* C6: once the backend reports closure the stop signal is raised and the
\* timer dropped in that tick; from there the return of the event loop is
\* enabled and is the only step the process can take, and it ends the
\* process with exit status 0: no later tick runs.
C6_ClosureStopsAndExitsCleanly ==
    /\ [](last.ev = "closed" =>
             (pc = "stopped" /\ stop /\ timer = "dropped" /\ ENABLED Shutdown))
    /\ [][last.ev = "closed" =>
             (last'.ev = "shutdown" /\ pc' = "exited" /\ exitCode' = 0)]_vars

\* The loop has returned after a closure and main has returned Ok.
C6_Witness ==
    /\ pc = "exited"
    /\ last.ev = "shutdown"
    /\ exitCode = 0

\* C7: a failed client dispatch or a failed render submission does not end
\* the process.
C7_FailureDoesNotTerminate ==
    last.ev \in {"dispatch_clients_failed", "render_failed"} =>
        pc \notin {"panicked", "exited"}

\* C8: after a clean shutdown WAYLAND_DISPLAY holds its pre-start value
\* again, unset included.
C8_EnvRestoredOrCleared ==
    (pc = "exited" /\ exitCode = 0) => env = current_display

\* C9: an event that arrives while a pointer grab is active is handled by
\* the grab.
C9_GrabbedEventsGoToGrab ==
    (last.ev \in {"motion", "pressed", "released", "axis"} /\ last.grabbed)
        => last.via \notin {"none", "default"}

\* C10: a popup grab request with an older serial installs no grab, one
\* with the current serial leaves the pointer grabbed by the popup.
C10_PopupGrabBySerial ==
    last.ev = "grab" =>
        /\ last.arg = 0 => grab.kind # "popup"
        /\ last.arg = 1 => grab.kind = "popup"

\* C11: while input is handled, the hit test at any point returns no window
\* whose toplevel has been destroyed, whether or not the space has been
\* refreshed since the destroy.
C11_DestroyedNeverHit ==
    pc = "input" =>
        \A p \in Points :
            LET r == ElementUnder(elements, p) IN
            r # NoWindow => life[r] = "alive"

\* C12: a raise made while an input event is handled does not change the
\* z-order the hit test walks before the next render: throughout the input
\* drain of a tick the order stays the one of the last rendered frame.
C12_RaiseVisibleAfterRender ==
    [][(pc = "input" /\ pc' = "input") => elements' = elements]_vars

\* C13: a new toplevel goes on top of the z-order and changes neither an
\* activation flag nor the keyboard focus; a button press over window W
\* (the topmost one containing the pointer) leaves W on top and focused, so
\* the top window is the last one mapped or clicked.
C13_TopIsLastMappedOrClicked ==
    [][/\ Len(elements') > Len(elements) =>
             /\ elements'[Len(elements')] = NextWindow
             /\ activated' = activated
             /\ kbdFocus' = kbdFocus
       /\ \A W \in Windows :
             (pc = "input" /\ last'.ev = "pressed"
                 /\ TopmostAt(elements, W, ptrLoc)) =>
                 /\ elements'[Len(elements')] = W
                 /\ kbdFocus' = W]_vars

\* C14: the geometry of a window changes only on a commit that follows the
\* acknowledgment of a configure; a window to which no configure was ever
\* sent has acknowledged none, so no commit changes its geometry.
C14_GeometryNeedsAckThenCommit ==
    [][\A w \in Windows :
          (w \in Range(elements) /\ w \in Range(elements')
              /\ life[w] = "alive" /\ sent[w] = "unsent") =>
              size'[w] = size[w]]_vars

\* C15: an acknowledgment that names an older configure than the latest one
\* sent to the window changes nothing: every part of the compositor's state
\* is what it was before the request, and the process keeps running.
C15_StaleAckIsNoOp ==
    [][(last'.ev = "ack" /\ last'.arg = 0) =>
          /\ UNCHANGED << pc, env, current_display, exitCode, stop, timer,
                          pending >>
          /\ UNCHANGED spaceVars
          /\ UNCHANGED seatVars
          /\ pc' = "idle"]_vars

\* A stale acknowledgment arrived for the activated window on top of another
\* window; both had been sent a configure.
C15_Witness ==
    /\ last.ev = "ack"
    /\ last.arg = 0
    /\ Len(elements) = 2
    /\ last.to = elements[2]
    /\ sent[last.to] = "active"
    /\ activated[last.to]
    /\ sent[elements[1]] = "inactive"

\* C16: a commit on a synchronized subsurface is cached: it changes neither
\* the current state of any surface nor the window, and runs no on_commit
\* hook; the current state of a subsurface that holds cached state changes
\* only in a commit of its parent, which makes exactly the cached state
\* current (a commit in desynchronized mode and the destruction of the
\* surface tree apart).
C16_SyncSubsurfaceWaitsForParent ==
    [][/\ last'.ev = "sync_commit" =>
             /\ subSize' = subSize
             /\ size' = size
             /\ subCached'[last'.to] = last'.arg
             /\ last'.via = "none"
       /\ \A w \in Windows :
             (subCached[w] # NoCache /\ subCached'[w] = NoCache
                 /\ life'[w] = life[w] /\ w \in Range(elements')
                 /\ last'.ev # "desync_commit") =>
                 /\ \E s \in 0..MaxSize : Commit(w, s)
                 /\ subSize'[w] = subCached[w]
       /\ \A w \in Windows :
             (subSize'[w] # subSize[w] /\ w \in Range(elements')
                 /\ life'[w] = life[w]) =>
                 \/ last'.ev = "desync_commit" /\ last'.to = w
                 \/ /\ \E s \in 0..MaxSize : Commit(w, s)
                    /\ subSize'[w] = subCached[w]]_vars

\* A synchronized subsurface has committed a buffer while its current one
\* is another and its parent has a buffer: the new one waits in the cache.
C16_Witness ==
    /\ last.ev = "sync_commit"
    /\ last.arg = 1
    /\ subCached[last.to] = 1
    /\ subSize[last.to] = 0
    /\ size[last.to] = 1

\* C17: the frame of a scroll event carries, on each axis, the continuous
\* amount unscaled when the event has one, and three times the discrete
\* amount d when it has only a discrete one; the frame is passed to the
\* seat's pointer for the pointer focus.
C17_DiscreteScaledByThree ==
    last.ev = "axis" =>
        /\ last.via # "none"
        /\ last.to = ptrFocus
        /\ \A ax \in {"h", "v"} :
              LET in  == last.arg.event[ax]
                  out == last.arg.frame[ax]
              IN  /\ \A a \in in.amount : out.value = a
                  /\ in.amount = {} =>
                        \A d \in in.discrete : out.value = 3 * d

\* A scroll event over a window: a line delta of one step up and one step
\* right, no continuous amount on either axis.
C17_Witness ==
    /\ last.ev = "axis"
    /\ last.to # NoWindow
    /\ last.arg.event.v = [amount |-> {}, discrete |-> {-1}]
    /\ last.arg.frame.v.value = -3
    /\ last.arg.event.h = [amount |-> {}, discrete |-> {1}]
    /\ last.arg.frame.h.value = 3

\* C18: a tick whose input drain does not end in closure goes on to the
\* render, then notifies every window of the space of the frame, then
\* refreshes the space (only windows whose toplevel is alive stay), then
\* flushes the clients, then rearms the timer and returns to the loop: each
\* step is followed by the next one, none is skipped.
C18_TickRunsEveryStepInOrder ==
    [][/\ (pc = "input" /\ last'.ev = "dispatched") => pc' = "render"
       /\ pc = "render" => (pc' = "frame" /\ last'.ev = "render")
       /\ pc = "frame" =>
             /\ pc' = "refresh"
             /\ last'.ev = "send_frame"
             /\ last'.arg = Range(elements)
       /\ pc = "refresh" =>
             /\ pc' = "flush"
             /\ Range(elements') = {w \in Range(elements) : life[w] = "alive"}
       /\ pc = "flush" => (pc' = "reschedule" /\ last'.ev = "flush")
       /\ pc = "reschedule" => (pc' = "idle" /\ timer' = "armed")]_vars

\* C19: a button press handled with no grab active sends a configure to
\* exactly the windows of the space whose activation flag the press changed
\* (a configure was sent to a window when the state last sent to it is no
\* longer the one before the press).
C19_ConfigureIffActivationChanged ==
    [][UngrabbedPress =>
          \A w \in Range(elements) :
              (sent'[w] # sent[w]) <=> (activated'[w] # activated[w])]_vars

\* C20: in every reachable state at most one window of the space has its
\* activated flag set.
C20_AtMostOneActivated ==
    Cardinality({w \in Range(elements) : activated[w]}) <= 1

\* A press with no grab active hit a window and activated it while another
\* window, destroyed but not yet pruned, was still in the space below it.
C20_Witness ==
    /\ last.ev = "pressed"
    /\ ~last.grabbed
    /\ last.arg # NoWindow
    /\ Len(elements) = 2
    /\ elements[2] = last.arg
    /\ activated[last.arg]
    /\ life[elements[1]] = "destroyed"

\* C21: in every reachable state the keyboard focus is none or a window
\* that is in the space; a focused window that was destroyed and pruned by
\* the refresh does not keep the focus.
C21_FocusIsInSpace ==
    kbdFocus = NoWindow \/ kbdFocus \in Range(elements)

\* C22: a button release, and a button press that arrives while a pointer
\* grab is active, change neither the z-order nor any activation flag nor
\* the keyboard focus nor the configure last sent to any window.
C22_IgnoredButtonChangesNothing ==
    [][(/\ pc = "input"
        /\ last'.ev \in {"pressed", "released"}
        /\ (last'.ev = "released" \/ IsGrabbed(grab))) =>
          UNCHANGED << elements, activated, kbdFocus, sent >>]_vars

\* A press arrived during the click grab of an earlier press, over a window
\* that is neither focused nor activated and has never been configured.
C22_Witness ==
    /\ last.ev = "pressed"
    /\ last.grabbed
    /\ HitWindow # NoWindow
    /\ kbdFocus # HitWindow
    /\ ~activated[HitWindow]
    /\ sent[HitWindow] = "unsent"

====
